---- MODULE Spec2Model ----
(***************************************************************************)
(* Model of the netlink uevent connection, the uevent wire parser and the  *)
(* Monitor worker of package netlink (src/netlink/conn.go, uevent.go) and  *)
(* of its caller (src/main.go).                                            *)
(*                                                                         *)
(* Byte strings are sequences of naturals 0..255.  An event is a record    *)
(* [Action, KObj, Env]; Env (a Go map[string]string) is a set of <<k, v>>  *)
(* pairs with pairwise distinct keys.                                      *)
(***************************************************************************)
EXTENDS Integers, Sequences, FiniteSets, TLC

\* ---------------------------------------------------------------- bounds
\* os.Getpagesize(), scaled down
PageSize == 4
\* number of datagrams the kernel queues on the socket in one run
MaxDatagrams == 3
\* largest MatchedUEventLimit tried
MaxLimit == 2
\* datagrams the kernel queues of its own accord in the runs with fairness
MaxLiveDatagrams == 1

\* ---------------------------------------------------------------- bytes
NUL == 0
AT == 64
EQ == 61

ADD == <<97, 100, 100>>
REMOVE == <<114, 101, 109, 111, 118, 101>>
CHANGE == <<99, 104, 97, 110, 103, 101>>
MOVE == <<109, 111, 118, 101>>
ONLINE == <<111, 110, 108, 105, 110, 101>>
OFFLINE == <<111, 102, 102, 108, 105, 110, 101>>
BIND == <<98, 105, 110, 100>>
UNBIND == <<117, 110, 98, 105, 110, 100>>

KObjActions == {ADD, REMOVE, CHANGE, MOVE, ONLINE, OFFLINE, BIND, UNBIND}

\* "libudev\x00"
LibudevPrefix == <<108, 105, 98, 117, 100, 101, 118, 0>>
\* 0xfeedcafe as the four bytes binary.BigEndian.Uint32 reads
libudevMagic == <<254, 237, 202, 254>>
\* "ACTION", "DEVPATH"
KeyACTION == <<65, 67, 84, 73, 79, 78>>
KeyDEVPATH == <<68, 69, 86, 80, 65, 84, 72>>

Min(a, b) == IF a < b THEN a ELSE b

\* s[from:to] of Go (0-based, half open) on a 1-based sequence
Slice(s, from, to) == SubSeq(s, from + 1, to)

\* bytes.Split(s, []byte{sep}) for a one-byte separator
RECURSIVE SplitAcc(_, _, _, _, _)
SplitAcc(s, sep, i, cur, out) ==
    IF i > Len(s) THEN Append(out, cur)
    ELSE IF s[i] = sep THEN SplitAcc(s, sep, i + 1, <<>>, Append(out, cur))
    ELSE SplitAcc(s, sep, i + 1, Append(cur, s[i]), out)

\* a split that leaves the empty parts out
Split_dropEmpty(s, sep) == SelectSeq(SplitAcc(s, sep, 1, <<>>, <<>>), LAMBDA f : f # <<>>)

Split(s, sep) == SplitAcc(s, sep, 1, <<>>, <<>>)

\* strings.ToLower on ASCII bytes
ToLower(s) == [i \in 1..Len(s) |-> IF s[i] >= 65 /\ s[i] <= 90 THEN s[i] + 32 ELSE s[i]]

\* ParseKObjAction: TRUE iff raw is one of the eight actions
ParseKObjAction(raw) == raw \in KObjActions

\* m[k] = v on a Go map
MapSet(m, k, v) == {p \in m : p[1] # k} \cup {<<k, v>>}

\* m[k] on a Go map (zero value "" when absent)
MapGet(m, k) == IF \E p \in m : p[1] = k THEN (CHOOSE p \in m : p[1] = k)[2] ELSE <<>>

\* Results of the parsers: kind "ok" carries the event, kind "err" an error
\* string, kind "panic" is a Go run-time panic (slice bounds out of range).
\* Field some tells whether the *UEvent returned is non-nil.
OkEvent(e) == [kind |-> "ok", some |-> TRUE, ev |-> e, err |-> "nil"]
ParseErr(msg) == [kind |-> "err", some |-> FALSE, ev |-> "nil", err |-> msg]
ParsePanic == [kind |-> "panic", some |-> FALSE, ev |-> "nil", err |-> "nil"]

\* the loop "for _, envs := range fields[lo : len(fields)-1]" storing the pairs
\* in env; it stops at the first field that does not split in two on '='
RECURSIVE EnvLoop(_, _, _, _)
EnvLoop(fields, i, hi, env) ==
    IF i > hi THEN [env |-> env, bad |-> FALSE]
    ELSE LET kv == Split(fields[i], EQ)
         IN IF Len(kv) # 2 THEN [env |-> env, bad |-> TRUE]
            ELSE EnvLoop(fields, i + 1, hi, MapSet(env, kv[1], kv[2]))

\* ---------------------------------------------------------------- state
VARIABLES
    littleEndian,  \* byte order of the platform the program was built for
    limit,         \* c.MatchedUEventLimit
    matcher,       \* "nil", "failing" (Compile fails) or "addOnly"
    queueCap,      \* capacity of the caller's queue channel
    errsCap,       \* capacity of the caller's errs channel
    arrived,       \* every datagram the kernel queued on the socket, in order
    sock,          \* the kernel socket queue (datagrams not yet read)
    mpc,           \* position of the Monitor call: "start", "sendCompileErr", "returned"
    wpc,           \* position of the worker goroutine
    bufToRead,     \* the worker's hand-off channel (capacity 1)
    pending,       \* the value the worker is about to send on queue (ev, idx) or errs (err)
    count,         \* the worker's match counter
    quitLen,       \* number of values buffered in quit (capacity 1)
    quitClosed,    \* quit has been closed
    queueBuf,      \* values buffered in queue
    queueClosed,   \* queue has been closed
    errsBuf,       \* values buffered in errs
    cpc,           \* the consumer loop: "afterReturn" (it starts once Monitor has returned, as
                   \* in main.go), "notStarted" (it starts at any time, from a goroutine of
                   \* its own), "running"
    received,      \* events the consumer received from queue
    errsSeen,      \* errors the consumer received from errs
    sawClosed,     \* the consumer received from the closed queue
    cancelPc,      \* position of the caller raising the signal: "idle", "sending"
    panicked,      \* "no", or the run-time panic the process died of
    delivered,     \* history: events sent on queue, with the index of their datagram
    emitted,       \* history: errors sent on errs
    npeek,         \* history: number of msgPeek calls that returned
    nread,         \* history: number of datagrams destructively read
    handled,       \* history: what became of each datagram that was read
    rpc,           \* position of a direct ReadMsg caller: "idle", "peeked", "failed"
    rbuf,          \* the buffer msgPeek handed to that caller
    msgs,          \* history: the messages ReadMsg returned
    pstage,        \* a direct caller of the parser: "none", "event", "encoded", "parsed",
                   \* "compared"
    inEv,          \* the event that caller encodes or compares
    inEv2,         \* the event it is compared with
    inOff,         \* the payload offset written in the header of raw (-1: none)
    inRaw,         \* the buffer given to ParseUEvent
    res,           \* what ParseUEvent returned
    eqr,           \* what Equal returned
    pkpc,          \* a msgPeek call, one Recvfrom at a time: "idle", "recv", "returned", "failed"
    pkcap,         \* len(buf) in that call
    pkn            \* n in that call

vars == <<littleEndian, limit, matcher, queueCap, errsCap, arrived, sock,
          mpc, wpc, bufToRead, pending, count, quitLen, quitClosed, queueBuf,
          queueClosed, errsBuf, cpc, received, errsSeen, sawClosed, cancelPc,
          panicked, delivered, emitted, npeek, nread, handled, rpc, rbuf, msgs,
          pstage, inEv, inEv2, inOff, inRaw, res, eqr, pkpc, pkcap, pkn>>

\* ---------------------------------------------------------------- parser
\* raw[8:12] read as a little-endian uint32
MagicOf_le(raw) == <<raw[12], raw[11], raw[10], raw[9]>>

\* the big-endian uint32 of raw[8:12], as its four bytes
MagicOf(raw) == Slice(raw, 8, 12)

\* the uint32 at &raw[16] in the platform's byte order (le: little endian),
\* most significant byte first
NativeBytes(raw, le) ==
    IF le THEN <<raw[20], raw[19], raw[18], raw[17]>>
    ELSE <<raw[17], raw[18], raw[19], raw[20]>>

\* the test with > in the place of >=
PayloadOffInvalid_gt(raw, le) ==
    LET b == NativeBytes(raw, le)
    IN b[1] # 0 \/ (b[2] * 65536 + b[3] * 256 + b[4]) > Len(raw)

\* payloadoff >= uint32(len(raw)), for len(raw) < 2^24
PayloadOffInvalid(raw, le) ==
    LET b == NativeBytes(raw, le)
    IN b[1] # 0 \/ (b[2] * 65536 + b[3] * 256 + b[4]) >= Len(raw)

PayloadOff(raw, le) ==
    LET b == NativeBytes(raw, le)
    IN b[2] * 65536 + b[3] * 256 + b[4]

\* the payload of a udev message: KEY=VALUE fields, ACTION and DEVPATH among them
UdevPayload(data) ==
    LET fields == Split(data, NUL)
        r == EnvLoop(fields, 1, Len(fields) - 1, {})
        envdata == r.env
    IN IF r.bad THEN ParseErr("invalid env data")
       ELSE LET action == ToLower(MapGet(envdata, KeyACTION))
            IN IF ~ParseKObjAction(action) THEN ParseErr("unknow kobject action")
               ELSE OkEvent([Action |-> action,
                             KObj |-> MapGet(envdata, KeyDEVPATH),
                             Env |-> envdata])

parseUdevEvent(raw, le) ==
    IF MagicOf(raw) # libudevMagic THEN ParseErr("magic number mismatch")
    ELSE IF PayloadOffInvalid(raw, le) THEN ParseErr("invalid data offset")
    ELSE UdevPayload(Slice(raw, PayloadOff(raw, le), Len(raw)))

\* the length a buffer must exceed to be taken for a udev message
UdevHeaderLen == 40

\* the test with the length at least 40
IsUdevFormat_ge40(raw) == Len(raw) >= UdevHeaderLen /\ Slice(raw, 0, 8) = LibudevPrefix

\* len(raw) > 40 && bytes.Equal(raw[:8], "libudev\x00")
IsUdevFormat(raw) == Len(raw) > UdevHeaderLen /\ Slice(raw, 0, 8) = LibudevPrefix

ParseUEvent(raw, le) ==
    IF IsUdevFormat(raw) THEN parseUdevEvent(raw, le)
    ELSE LET fields == Split(raw, NUL)
             headers == Split(fields[1], AT)
         IN IF Len(fields) = 0 THEN ParseErr("Wrong uevent format")
            ELSE IF Len(headers) # 2 THEN ParseErr("Wrong uevent header")
            ELSE IF ~ParseKObjAction(headers[1]) THEN ParseErr("unknow kobject action")
            ELSE IF 1 > Len(fields) - 1 THEN ParsePanic
            ELSE LET r == EnvLoop(fields, 2, Len(fields) - 1, {})
                     e == [Action |-> headers[1], KObj |-> headers[2], Env |-> r.env]
                 IN IF r.bad
                    THEN [kind |-> "err", some |-> TRUE, ev |-> e, err |-> "Wrong uevent env"]
                    ELSE OkEvent(e)

\* ---------------------------------------------------------------- connection
\* a buffer of the given capacity holding data at its start
Padded(data, cap) == [i \in 1..cap |-> IF i <= Len(data) THEN data[i] ELSE 0]

\* syscall.Recvfrom on a datagram socket: the number of bytes copied
Recvfrom(d, buflen) == Min(Len(d), buflen)

\* msgPeek doubling its buffer
Grow_double(buflen) == 2 * buflen

\* buf = make([]byte, len(buf)+os.Getpagesize())
Grow(buflen) == buflen + PageSize

\* msgPeek leaving its loop on n <= len(buf)
RECURSIVE PeekLoop_le(_, _)
PeekLoop_le(d, buflen) ==
    LET n == Recvfrom(d, buflen)
    IN IF n <= buflen THEN [n |-> n, buf |-> Padded(SubSeq(d, 1, n), buflen)]
       ELSE PeekLoop_le(d, Grow(buflen))

\* the loop of msgPeek on the head datagram d with a buffer of buflen bytes
RECURSIVE PeekLoop(_, _)
PeekLoop(d, buflen) ==
    LET n == Recvfrom(d, buflen)
    IN IF n < buflen THEN [n |-> n, buf |-> Padded(SubSeq(d, 1, n), buflen)]
       ELSE PeekLoop(d, Grow(buflen))

\* msgPeek without a transport error: the socket queue q is left as it is
msgPeek(q) == PeekLoop(Head(q), PageSize)

\* msgRead receiving the newest datagram of the queue instead of the oldest
msgRead_last(buf, q) ==
    LET n == Recvfrom(q[Len(q)], Len(buf))
    IN [buf |-> SubSeq(q[Len(q)], 1, n), sock |-> SubSeq(q, 1, Len(q) - 1)]

\* msgRead without a transport error: the head datagram leaves the queue, the
\* buffer is cut to the bytes received
msgRead(buf, q) ==
    LET n == Recvfrom(Head(q), Len(buf))
    IN [buf |-> SubSeq(Head(q), 1, n), sock |-> Tail(q)]

\* ---------------------------------------------------------------- matcher
\* Matcher.Compile() returns an error
CompileFails(m) == m = "failing"

\* Matcher.Evaluate(e)
Evaluate(m, e) == m = "addOnly" => e.Action = ADD

\* the worker without its matcher test
Rejected_never(m, e) == FALSE

\* if matcher != nil { if !matcher.Evaluate(*uevent) { continue loop } }
Rejected(m, e) == m # "nil" /\ ~Evaluate(m, e)

\* the limit test with > for >=
LimitReached_gt(l, c) == l > 0 /\ c > l

\* if c.MatchedUEventLimit > 0 && count >= c.MatchedUEventLimit { break loop }
LimitReached(l, c) == l > 0 /\ c >= l

\* "break loop" after every error
AfterErr_break(pc) == "failed"

\* "continue loop" after every error
AfterErr_continue(pc) == "select"

\* where the worker goes after its send on errs: "continue loop" after a
\* parse error, "break loop" after a transport error
AfterErr(pc) == IF pc = "sendParseErr" THEN "select" ELSE "failed"

\* ---------------------------------------------------------------- datagrams
\* "add@p\x00"
DgAdd == ADD \o <<AT, 112, NUL>>
\* "remove@p\x00"
DgRemove == REMOVE \o <<AT, 112, NUL>>
\* "x\x00": no '@' in the header
DgBad == <<120, NUL>>
\* "add@p": no NUL at all
DgNoNul == ADD \o <<AT, 112>>

Datagrams == {DgAdd, DgRemove, DgBad, DgNoNul}

\* ---------------------------------------------------------------- channels
\* a receive from quit that does not see the channel closed
QuitReady_noClose == quitLen > 0

\* case <-quit can proceed: a value is buffered or the channel is closed
QuitReady == quitLen > 0 \/ quitClosed

\* a queue that takes a value whether or not there is room or a receiver
CanSendQueue_always == TRUE

\* a send on queue can proceed: a receiver is waiting or the buffer has room
CanSendQueue == IF queueCap = 0 THEN cpc = "running" ELSE Len(queueBuf) < queueCap

CanSendErrs == IF errsCap = 0 THEN cpc = "running" ELSE Len(errsBuf) < errsCap

Alive == panicked = "no"

MonitorVars == <<mpc, wpc, bufToRead, pending, count, quitLen, quitClosed, queueBuf,
                 queueClosed, errsBuf, cpc, received, errsSeen, sawClosed, cancelPc,
                 panicked, delivered, emitted, npeek, nread, handled>>

ConfigVars == <<littleEndian, limit, matcher, queueCap, errsCap>>

ReadVars == <<rpc, rbuf, msgs>>

ParserVars == <<pstage, inEv, inEv2, inOff, inRaw, res, eqr>>

PeekVars == <<pkpc, pkcap, pkn>>

\* ---------------------------------------------------------------- Init
\* The caller's channels: unbuffered as in main.go, or with one slot; both
\* channels are made alike.
ChanCaps == {0, 1}

InitState ==
    /\ arrived = <<>>
    /\ sock = <<>>
    /\ mpc = "start"
    /\ wpc = "notStarted"
    /\ bufToRead = <<>>
    /\ pending = <<>>
    /\ count = 0
    /\ quitLen = 0
    /\ quitClosed = FALSE
    /\ queueBuf = <<>>
    /\ queueClosed = FALSE
    /\ errsBuf = <<>>
    /\ received = <<>>
    /\ errsSeen = <<>>
    /\ sawClosed = FALSE
    /\ cancelPc = "idle"
    /\ panicked = "no"
    /\ delivered = <<>>
    /\ emitted = <<>>
    /\ npeek = 0
    /\ nread = 0
    /\ handled = <<>>
    /\ rpc = "idle"
    /\ rbuf = <<>>
    /\ msgs = <<>>
    /\ pkpc = "idle"
    /\ pkcap = 0
    /\ pkn = 0

\* no direct call of the parser is under way
NoParserCall ==
    /\ pstage = "none"
    /\ inEv = <<>>
    /\ inEv2 = <<>>
    /\ inOff = -1
    /\ inRaw = <<>>
    /\ res = <<>>
    /\ eqr = <<>>

\* The state when monitor() of main.go is about to call conn.Monitor: the
\* connection is bound and nothing has been received yet.
Init ==
    /\ littleEndian = TRUE
    /\ limit \in 0..MaxLimit
    /\ matcher \in {"nil", "failing", "addOnly"}
    /\ queueCap \in ChanCaps
    /\ errsCap = queueCap
    /\ cpc \in {"afterReturn", "notStarted"}
    /\ InitState
    /\ NoParserCall

\* ---------------------------------------------------------------- kernel
\* the kernel queues one more datagram on the socket
KernelSend ==
    /\ Alive
    /\ Len(arrived) < MaxDatagrams
    /\ \E d \in Datagrams :
          /\ arrived' = Append(arrived, d)
          /\ sock' = Append(sock, d)
    /\ UNCHANGED <<ConfigVars, ParserVars, PeekVars, MonitorVars, ReadVars>>

\* ---------------------------------------------------------------- Monitor
\* Monitor up to its first blocking point: make quit, compile the matcher,
\* start the worker and return, or go on to report the compile error
MonitorStart ==
    /\ Alive
    /\ mpc = "start"
    /\ IF matcher # "nil" /\ CompileFails(matcher)
       THEN /\ mpc' = "sendCompileErr"
            /\ UNCHANGED wpc
       ELSE /\ mpc' = "returned"
            /\ wpc' = "select"
    /\ UNCHANGED <<ConfigVars, ParserVars, PeekVars,
                   arrived, sock, bufToRead, pending, count, quitLen, quitClosed,
                   queueBuf, queueClosed, errsBuf, cpc, received, errsSeen, sawClosed,
                   cancelPc, panicked, delivered, emitted, npeek, nread, handled,
                   ReadVars>>

\* errs <- "Wrong matcher"; quit <- struct{}{}; close(queue); return quit
MonitorCompileErr ==
    /\ Alive
    /\ mpc = "sendCompileErr"
    /\ CanSendErrs
    /\ emitted' = Append(emitted, "Wrong matcher")
    /\ IF errsCap = 0
       THEN errsSeen' = Append(errsSeen, "Wrong matcher") /\ UNCHANGED errsBuf
       ELSE errsBuf' = Append(errsBuf, "Wrong matcher") /\ UNCHANGED errsSeen
    /\ quitLen' = quitLen + 1
    /\ queueClosed' = TRUE
    /\ mpc' = "returned"
    /\ UNCHANGED <<ConfigVars, ParserVars, PeekVars,
                   arrived, sock, wpc, bufToRead, pending, count, quitClosed,
                   queueBuf, cpc, received, sawClosed, cancelPc, panicked,
                   delivered, npeek, nread, handled, ReadVars>>

\* a cancellation that also interrupts the worker while it waits to send
WorkerSelectQuit_preempt ==
    /\ Alive
    /\ wpc \in {"select", "sendEvent", "sendParseErr"}
    /\ QuitReady
    /\ IF cancelPc = "sending"
       THEN cancelPc' = "idle" /\ UNCHANGED quitLen
       ELSE /\ quitLen' = IF quitLen > 0 THEN quitLen - 1 ELSE quitLen
            /\ UNCHANGED cancelPc
    /\ wpc' = "cancelled"
    /\ UNCHANGED <<ConfigVars, ParserVars, PeekVars,
                   arrived, sock, mpc, bufToRead, pending, count, quitClosed,
                   queueBuf, queueClosed, errsBuf, cpc, received, errsSeen, sawClosed,
                   panicked, delivered, emitted, npeek, nread, handled,
                   ReadVars>>

\* select: case <-quit; break loop.  A receive from the full channel hands the
\* freed slot to a sender blocked on it.
WorkerSelectQuit ==
    /\ Alive
    /\ wpc = "select"
    /\ QuitReady
    /\ IF cancelPc = "sending"
       THEN cancelPc' = "idle" /\ UNCHANGED quitLen
       ELSE /\ quitLen' = IF quitLen > 0 THEN quitLen - 1 ELSE quitLen
            /\ UNCHANGED cancelPc
    /\ wpc' = "cancelled"
    /\ UNCHANGED <<ConfigVars, ParserVars, PeekVars,
                   arrived, sock, mpc, bufToRead, pending, count, quitClosed,
                   queueBuf, queueClosed, errsBuf, cpc, received, errsSeen, sawClosed,
                   panicked, delivered, emitted, npeek, nread, handled,
                   ReadVars>>

\* select: case buf := <-bufToRead, up to the send that follows: msgRead,
\* ParseUEvent, matcher.Evaluate
WorkerSelectBuf ==
    /\ Alive
    /\ wpc = "select"
    /\ bufToRead # <<>>
    /\ bufToRead' = <<>>
    /\ \/ \* msgRead returns a transport error
          /\ pending' = <<[err |-> "Unable to read uevent"]>>
          /\ wpc' = "sendReadErr"
          /\ UNCHANGED <<sock, nread, handled, panicked>>
       \/ /\ sock # <<>>
          /\ LET r == msgRead(Head(bufToRead), sock)
                 p == ParseUEvent(r.buf, littleEndian)
             IN /\ sock' = r.sock
                /\ nread' = nread + 1
                /\ IF p.kind = "panic"
                   THEN /\ panicked' = "slice bounds out of range"
                        /\ handled' = Append(handled, "panic")
                        /\ UNCHANGED <<pending, wpc>>
                   ELSE IF p.kind = "err"
                   THEN /\ pending' = <<[err |-> "Unable to parse uevent"]>>
                        /\ wpc' = "sendParseErr"
                        /\ handled' = Append(handled, "error")
                        /\ UNCHANGED panicked
                   ELSE IF Rejected(matcher, p.ev)
                   THEN /\ handled' = Append(handled, "dropped")
                        /\ UNCHANGED <<pending, wpc, panicked>>
                   ELSE /\ pending' = <<[ev |-> p.ev, idx |-> nread + 1]>>
                        /\ wpc' = "sendEvent"
                        /\ handled' = Append(handled, "accepted")
                        /\ UNCHANGED panicked
    /\ UNCHANGED <<ConfigVars, ParserVars, PeekVars,
                   arrived, mpc, count, quitLen, quitClosed, queueBuf,
                   queueClosed, errsBuf, cpc, received, errsSeen, sawClosed, cancelPc,
                   delivered, emitted, npeek, ReadVars>>

\* queue <- *uevent; count++; the limit test
WorkerSendEvent ==
    /\ Alive
    /\ wpc = "sendEvent"
    /\ CanSendQueue
    /\ delivered' = Append(delivered, Head(pending))
    /\ IF queueCap = 0
       THEN received' = Append(received, Head(pending).ev) /\ UNCHANGED queueBuf
       ELSE queueBuf' = Append(queueBuf, Head(pending).ev) /\ UNCHANGED received
    /\ pending' = <<>>
    /\ count' = count + 1
    /\ wpc' = IF LimitReached(limit, count + 1) THEN "limit" ELSE "select"
    /\ UNCHANGED <<ConfigVars, ParserVars, PeekVars,
                   arrived, sock, mpc, bufToRead, quitLen, quitClosed,
                   queueClosed, errsBuf, cpc, errsSeen, sawClosed, cancelPc,
                   panicked, emitted, npeek, nread, handled, ReadVars>>

\* errs <- fmt.Errorf(...) of the worker; break loop after a transport error,
\* continue loop after a parse error
WorkerSendErr ==
    /\ Alive
    /\ wpc \in {"sendReadErr", "sendParseErr", "sendPeekErr"}
    /\ CanSendErrs
    /\ emitted' = Append(emitted, Head(pending).err)
    /\ IF errsCap = 0
       THEN errsSeen' = Append(errsSeen, Head(pending).err) /\ UNCHANGED errsBuf
       ELSE errsBuf' = Append(errsBuf, Head(pending).err) /\ UNCHANGED errsSeen
    /\ pending' = <<>>
    /\ wpc' = AfterErr(wpc)
    /\ UNCHANGED <<ConfigVars, ParserVars, PeekVars,
                   arrived, sock, mpc, bufToRead, count, quitLen, quitClosed,
                   queueBuf, queueClosed, cpc, received, sawClosed, cancelPc,
                   panicked, delivered, npeek, nread, handled, ReadVars>>

\* select: default, taken only when no other case is ready; the worker enters
\* msgPeek
WorkerSelectDefault ==
    /\ Alive
    /\ wpc = "select"
    /\ ~QuitReady
    /\ bufToRead = <<>>
    /\ wpc' = "peek"
    /\ UNCHANGED <<ConfigVars, ParserVars, PeekVars,
                   arrived, sock, mpc, bufToRead, pending, count, quitLen,
                   quitClosed, queueBuf, queueClosed, errsBuf, cpc, received, errsSeen,
                   sawClosed, cancelPc, panicked, delivered, emitted, npeek, nread,
                   handled, ReadVars>>

\* msgPeek returns (it blocks while the socket queue is empty), then
\* bufToRead <- buf
WorkerPeek ==
    /\ Alive
    /\ wpc = "peek"
    /\ \/ \* msgPeek returns a transport error
          /\ pending' = <<[err |-> "Unable to check available uevent"]>>
          /\ wpc' = "sendPeekErr"
          /\ UNCHANGED <<bufToRead, npeek>>
       \/ /\ sock # <<>>
          /\ Len(bufToRead) < 1
          /\ bufToRead' = Append(bufToRead, msgPeek(sock).buf)
          /\ npeek' = npeek + 1
          /\ wpc' = "select"
          /\ UNCHANGED pending
    /\ UNCHANGED <<ConfigVars, ParserVars, PeekVars,
                   arrived, sock, mpc, count, quitLen, quitClosed, queueBuf,
                   queueClosed, errsBuf, cpc, received, errsSeen, sawClosed, cancelPc,
                   panicked, delivered, emitted, nread, handled, ReadVars>>

\* ---------------------------------------------------------------- caller
\* the caller starts its receive loop: after Monitor returned, or at any time
\* when it runs in a goroutine of its own
ConsumerStart ==
    /\ Alive
    /\ cpc = "notStarted" \/ (cpc = "afterReturn" /\ mpc = "returned")
    /\ cpc' = "running"
    /\ UNCHANGED <<ConfigVars, ParserVars, PeekVars,
                   arrived, sock, mpc, wpc, bufToRead, pending, count, quitLen,
                   quitClosed, queueBuf, queueClosed, errsBuf, received, errsSeen, sawClosed,
                   cancelPc, panicked, delivered, emitted, npeek, nread, handled,
                   ReadVars>>

\* case uevent := <-queue, on a buffered value
ConsumerRecvQueue ==
    /\ Alive
    /\ cpc = "running"
    /\ queueBuf # <<>>
    /\ received' = Append(received, Head(queueBuf))
    /\ queueBuf' = Tail(queueBuf)
    /\ UNCHANGED <<ConfigVars, ParserVars, PeekVars,
                   arrived, sock, mpc, wpc, bufToRead, pending, count, quitLen,
                   quitClosed, queueClosed, errsBuf, cpc, errsSeen, sawClosed, cancelPc,
                   panicked, delivered, emitted, npeek, nread, handled, ReadVars>>

\* case uevent := <-queue, on the closed and drained channel
ConsumerRecvClosed ==
    /\ Alive
    /\ cpc = "running"
    /\ queueClosed
    /\ queueBuf = <<>>
    /\ ~sawClosed
    /\ sawClosed' = TRUE
    /\ UNCHANGED <<ConfigVars, ParserVars, PeekVars,
                   arrived, sock, mpc, wpc, bufToRead, pending, count, quitLen,
                   quitClosed, queueBuf, queueClosed, errsBuf, cpc, received, errsSeen,
                   cancelPc, panicked, delivered, emitted, npeek, nread, handled,
                   ReadVars>>

\* case err := <-errors, on a buffered value
ConsumerRecvErrs ==
    /\ Alive
    /\ cpc = "running"
    /\ errsBuf # <<>>
    /\ errsSeen' = Append(errsSeen, Head(errsBuf))
    /\ errsBuf' = Tail(errsBuf)
    /\ UNCHANGED <<ConfigVars, ParserVars, PeekVars,
                   arrived, sock, mpc, wpc, bufToRead, pending, count, quitLen,
                   quitClosed, queueBuf, queueClosed, cpc, received, sawClosed, cancelPc,
                   panicked, delivered, emitted, npeek, nread, handled, ReadVars>>

\* the caller raises the signal, for the first time or once more, by
\* quit <- struct{}{}: a panic on a closed channel, a blocked send while the
\* one slot of quit is taken
CancelSend ==
    /\ Alive
    /\ mpc = "returned"
    /\ cancelPc = "idle"
    /\ IF quitClosed
       THEN panicked' = "send on closed channel" /\ UNCHANGED <<quitLen, cancelPc>>
       ELSE IF quitLen < 1
       THEN quitLen' = quitLen + 1 /\ UNCHANGED <<panicked, cancelPc>>
       ELSE cancelPc' = "sending" /\ UNCHANGED <<panicked, quitLen>>
    /\ UNCHANGED <<ConfigVars, ParserVars, PeekVars,
                   arrived, sock, mpc, wpc, bufToRead, pending, count,
                   quitClosed, queueBuf, queueClosed, errsBuf, cpc, received, errsSeen,
                   sawClosed, delivered, emitted, npeek, nread, handled, ReadVars>>

\* the caller raises the signal, for the first time or once more, by
\* close(quit): a panic when already closed
CancelClose ==
    /\ Alive
    /\ mpc = "returned"
    /\ cancelPc = "idle"
    /\ IF quitClosed
       THEN panicked' = "close of closed channel" /\ UNCHANGED quitClosed
       ELSE quitClosed' = TRUE /\ UNCHANGED panicked
    /\ UNCHANGED <<ConfigVars, ParserVars, PeekVars,
                   arrived, sock, mpc, wpc, bufToRead, pending, count, quitLen,
                   queueBuf, queueClosed, errsBuf, cpc, received, errsSeen, sawClosed,
                   cancelPc, delivered, emitted, npeek, nread, handled, ReadVars>>

\* ---------------------------------------------------------------- Spec
Next ==
    \/ KernelSend
    \/ MonitorStart
    \/ MonitorCompileErr
    \/ WorkerSelectQuit
    \/ WorkerSelectBuf
    \/ WorkerSendEvent
    \/ WorkerSendErr
    \/ WorkerSelectDefault
    \/ WorkerPeek
    \/ ConsumerStart
    \/ ConsumerRecvQueue
    \/ ConsumerRecvClosed
    \/ ConsumerRecvErrs
    \/ CancelSend
    \/ CancelClose

Spec == Init /\ [][Next]_vars

\* ---------------------------------------------------------------- ReadMsg
\* a datagram of n bytes, none of them zero
Blob(n) == [i \in 1..n |-> 1 + (i % 250)]

\* sizes around the multiples of the page size
ReadSizes == {0, 1, PageSize - 1, PageSize, PageSize + 1,
              2 * PageSize - 1, 2 * PageSize, 2 * PageSize + 1, 3 * PageSize}

\* the kernel queues a datagram of one of these sizes
KernelSendBlob ==
    /\ Len(arrived) < MaxDatagrams
    /\ \E n \in ReadSizes :
          /\ arrived' = Append(arrived, Blob(n))
          /\ sock' = Append(sock, Blob(n))
    /\ UNCHANGED <<ConfigVars, ParserVars, PeekVars, MonitorVars, ReadVars>>

\* ReadMsg, first half: msgPeek returns (it blocks while the queue is empty)
ReadMsgPeek ==
    /\ rpc = "idle"
    /\ \/ \* msgPeek returns a transport error: return nil, err
          /\ rpc' = "failed"
          /\ UNCHANGED rbuf
       \/ /\ sock # <<>>
          /\ rbuf' = msgPeek(sock).buf
          /\ rpc' = "peeked"
    /\ UNCHANGED <<ConfigVars, ParserVars, PeekVars, MonitorVars, arrived, sock, msgs>>

\* ReadMsg, second half: msgRead and return *buf, err
ReadMsgRead ==
    /\ rpc = "peeked"
    /\ \/ \* msgRead returns a transport error
          /\ rpc' = "failed"
          /\ UNCHANGED <<sock, msgs, rbuf>>
       \/ /\ sock # <<>>
          /\ LET r == msgRead(rbuf, sock)
             IN /\ sock' = r.sock
                /\ msgs' = Append(msgs, r.buf)
          /\ rbuf' = <<>>
          /\ rpc' = "idle"
    /\ UNCHANGED <<ConfigVars, ParserVars, PeekVars, MonitorVars, arrived>>

\* A caller that uses the connection through ReadMsg only.
InitRead ==
    /\ littleEndian = TRUE
    /\ limit = 0
    /\ matcher = "nil"
    /\ queueCap = 0
    /\ errsCap = 0
    /\ cpc = "afterReturn"
    /\ InitState
    /\ NoParserCall

NextRead ==
    \/ KernelSendBlob
    \/ ReadMsgPeek
    \/ ReadMsgRead

SpecRead == InitRead /\ [][NextRead]_vars
\* ---------------------------------------------------------------- properties
WorkerDone == wpc \in {"cancelled", "limit", "failed"}

\* C1: whenever the worker has terminated (cancelled, match limit reached or
\* transport error) the event stream is closed.
C1_QueueClosedWhenWorkerDone == WorkerDone => queueClosed

\* C2: when Compile() fails, Monitor is never stuck in its send of the error
\* (the send can proceed, or the consumer can still start without Monitor
\* having returned), and once it has returned it has emitted exactly one
\* error, closed the event stream and started no worker, so that nothing was
\* peeked or read.
C2_CompileFailureReturns ==
    /\ mpc = "sendCompileErr" => (CanSendErrs \/ cpc = "notStarted")
    /\ (matcher = "failing" /\ mpc = "returned") =>
          /\ emitted = <<"Wrong matcher">>
          /\ queueClosed
          /\ wpc = "notStarted"
          /\ npeek = 0
          /\ nread = 0

\* C3: a step taken while the worker is at its select with the cancellation
\* signal raised never takes the pending buffer nor reads a datagram: the
\* worker stays at the select or stops.
C3_CancelWinsOverPendingBuffer ==
    [][(wpc = "select" /\ QuitReady) =>
          (nread' = nread /\ bufToRead' = bufToRead /\ wpc' \in {"select", "cancelled"})]_vars

\* C9: raising the cancellation signal, by a send or by a close, never panics
\* and never leaves the caller blocked on a signal no worker will receive.
C9_CancelNeverPanicsNorBlocks ==
    /\ panicked \notin {"send on closed channel", "close of closed channel"}
    /\ ~(cancelPc = "sending" /\ wpc \in {"notStarted", "cancelled", "limit", "failed"})

\* C10: ReadMsg returns exactly the bytes of the head datagram and removes
\* exactly that datagram: the messages returned so far, followed by the
\* socket queue, are the datagrams the kernel queued, in every state,
\* between the peek and the read included.
C10_ReadMsgExact == msgs \o sock = arrived

\* a datagram of no byte, of one page and of two pages have been returned
C10_Witness ==
    /\ rpc = "idle"
    /\ \E i, j, k \in 1..Len(msgs) :
          /\ Len(msgs[i]) = 0
          /\ Len(msgs[j]) = PageSize
          /\ Len(msgs[k]) = 2 * PageSize
\* ---------------------------------------------------------------- worker properties
\* what ParseUEvent makes of each datagram the kernel may queue (none of them
\* is long enough for the byte order to matter)
ParsedDatagram == [d \in Datagrams |-> ParseUEvent(d, TRUE)]

\* what ParseUEvent makes of the i-th datagram the kernel queued
Parsed(i) == ParsedDatagram[arrived[i]]

\* the i-th datagram parses and passes the matcher
Accepted(i) == Parsed(i).kind = "ok" /\ ~Rejected(matcher, Parsed(i).ev)

\* the i-th datagram parses and the matcher turns it down
Dropped(i) == Parsed(i).kind = "ok" /\ Rejected(matcher, Parsed(i).ev)

\* the indices, in order, of the queued datagrams that parse and pass the matcher
AcceptedIdx == SelectSeq([i \in 1..Len(arrived) |-> i], LAMBDA i : Accepted(i))

\* the events of a history of sends on queue
Events(h) == [i \in 1..Len(h) |-> h[i].ev]

ParseErrors(es) == SelectSeq(es, LAMBDA e : e = "Unable to parse uevent")

TransportErrors(es) ==
    SelectSeq(es, LAMBDA e : e \in {"Unable to read uevent", "Unable to check available uevent"})

\* C4: the match counter equals the number of delivered events and, under a
\* positive limit, never exceeds it; the delivered events are the first
\* accepted datagrams, one by one; the worker stops on the limit exactly when
\* the limit is positive and the counter has reached it, and it has then
\* peeked and read nothing past the datagram of the last delivered event.
C4_MatchLimit ==
    /\ count = Len(delivered)
    /\ limit > 0 => count <= limit
    /\ LET acc == AcceptedIdx
       IN /\ Len(delivered) <= Len(acc)
          /\ \A i \in 1..Len(delivered) : delivered[i].idx = acc[i]
    /\ wpc = "limit" <=> (limit > 0 /\ count = limit)
    /\ wpc = "limit" =>
          /\ nread = delivered[limit].idx
          /\ npeek = nread
          /\ bufToRead = <<>>

\* limit 2 and a matcher accepting only "add": of add, remove, add the two
\* adds were delivered and the worker stopped on the limit
C4_Witness ==
    /\ limit = 2
    /\ matcher = "addOnly"
    /\ arrived = <<DgAdd, DgRemove, DgAdd>>
    /\ wpc = "limit"
    /\ Len(received) = 2

\* C5: every event sent on the event stream is the parse result of a datagram
\* the worker has read and passes the matcher; a datagram the matcher turned
\* down is behind no delivered or pending event, the parse errors emitted or
\* pending are as many as the read datagrams that failed to parse, and the
\* counter counts the accepted datagrams only.
C5_OnlyParsedAndMatched ==
    /\ \A i \in 1..Len(delivered) :
          /\ delivered[i].idx <= nread
          /\ Parsed(delivered[i].idx).kind = "ok"
          /\ Parsed(delivered[i].idx).ev = delivered[i].ev
          /\ matcher # "nil" => Evaluate(matcher, delivered[i].ev)
    /\ \A j \in 1..nread : Dropped(j) =>
          /\ \A i \in 1..Len(delivered) : delivered[i].idx # j
          /\ wpc = "sendEvent" => Head(pending).idx # j
    /\ Len(ParseErrors(emitted)) + (IF wpc = "sendParseErr" THEN 1 ELSE 0)
          = Cardinality({j \in 1..nread : Parsed(j).kind = "err"})
    /\ count + (IF wpc = "sendEvent" THEN 1 ELSE 0)
          = Cardinality({j \in 1..nread : Accepted(j)})
    /\ received \o queueBuf = Events(delivered)

\* the matcher turned a datagram down and a later one was delivered
C5_Witness ==
    /\ matcher = "addOnly"
    /\ \E j \in 1..nread : Dropped(j) /\ \E i \in 1..Len(delivered) : delivered[i].idx > j
    /\ emitted = <<>>

C7_TransportFailureEndsLoop ==
    /\ []( Len(TransportErrors(emitted)) + (IF wpc \in {"sendReadErr", "sendPeekErr"} THEN 1 ELSE 0)
              = (IF wpc \in {"sendReadErr", "sendPeekErr", "failed"} THEN 1 ELSE 0) )
    /\ []( wpc = "failed" => emitted[Len(emitted)] \in
                                 {"Unable to read uevent", "Unable to check available uevent"} )
    /\ [][(wpc \in {"sendReadErr", "sendPeekErr"} /\ wpc' # wpc) =>
             /\ wpc' = "failed"
             /\ emitted' = Append(emitted, Head(pending).err)
             /\ UNCHANGED <<npeek, nread, delivered, count>>]_vars
    /\ [][wpc = "failed" =>
             UNCHANGED <<wpc, npeek, nread, delivered, emitted, bufToRead, count, pending>>]_vars

\* the read of a probed datagram failed after an event was delivered, and
\* datagrams are left on the socket
C7_Witness ==
    /\ wpc = "failed"
    /\ emitted = <<"Unable to read uevent">>
    /\ Len(delivered) = 1
    /\ Len(sock) = 2

\* C8: the delivered events come from datagrams of strictly increasing
\* position in the kernel's queue, each is the parse result of its datagram,
\* and the consumer receives them in the order they were sent.
C8_DeliveryOrder ==
    /\ \A i, j \in 1..Len(delivered) : i < j => delivered[i].idx < delivered[j].idx
    /\ \A i \in 1..Len(delivered) :
          /\ Parsed(delivered[i].idx).kind = "ok"
          /\ Parsed(delivered[i].idx).ev = delivered[i].ev
    /\ \E n \in 0..Len(delivered) : received = SubSeq(Events(delivered), 1, n)

\* three different datagrams were received in the order the kernel queued them
C8_Witness ==
    /\ arrived = <<DgAdd, DgRemove, DgAdd>>
    /\ matcher = "nil"
    /\ Len(received) = 3
    /\ received[1].Action = ADD
    /\ received[2].Action = REMOVE

\* ---------------------------------------------------------------- encoder, Equal
\* the orders in which "for k, v := range e.Env" may visit the pairs of env
RangeOrders(env) ==
    LET n == Cardinality(env)
    IN {s \in [1..n -> env] : {s[i] : i \in 1..n} = env}

\* rv += k + "=" + v + "\000" for the pairs of ord from the i-th on
RECURSIVE EnvBytes(_, _)
EnvBytes(ord, i) ==
    IF i > Len(ord) THEN <<>>
    ELSE ord[i][1] \o <<EQ>> \o ord[i][2] \o <<NUL>> \o EnvBytes(ord, i + 1)

\* UEvent.Bytes (the bytes of UEvent.String) when the map is ranged over in
\* the order ord
Bytes(e, ord) == e.Action \o <<AT>> \o e.KObj \o <<NUL>> \o EnvBytes(ord, 1)

\* Equal without its test of the two lengths
Equal_noLen(e, e2) ==
    IF e.Action # e2.Action THEN [ok |-> FALSE, reason |-> "Wrong action"]
    ELSE IF e.KObj # e2.KObj THEN [ok |-> FALSE, reason |-> "Wrong kobject"]
    ELSE IF \E p \in e.Env : ~\E q \in e2.Env : q[1] = p[1] /\ p[2] = q[2]
         THEN [ok |-> FALSE, reason |-> "Unable to find env var"]
    ELSE [ok |-> TRUE, reason |-> "nil"]

\* UEvent.Equal: the boolean and the error it returns
Equal(e, e2) ==
    IF e.Action # e2.Action THEN [ok |-> FALSE, reason |-> "Wrong action"]
    ELSE IF e.KObj # e2.KObj THEN [ok |-> FALSE, reason |-> "Wrong kobject"]
    ELSE IF Cardinality(e.Env) # Cardinality(e2.Env)
         THEN [ok |-> FALSE, reason |-> "Wrong length of env"]
    ELSE IF \E p \in e.Env : ~\E q \in e2.Env : q[1] = p[1] /\ p[2] = q[2]
         THEN [ok |-> FALSE, reason |-> "Unable to find env var"]
    ELSE [ok |-> TRUE, reason |-> "nil"]

\* ---------------------------------------------------------------- events of the callers
\* keys and values without NUL, '@' or '=': "K", "" and "ACTION"; "", "v", "add"
TestKeys == {<<75>>, <<>>, KeyACTION}

TestValues == {<<>>, <<118>>, ADD}

\* the maps from some of the keys to the values, as sets of pairs
TestEnvs ==
    UNION {[ks -> TestValues] : ks \in SUBSET TestKeys}

EnvPairs(f) == {<<k, f[k]>> : k \in DOMAIN f}

\* events with a valid action: two actions, an empty and a non-empty path
TestEvents ==
    {[Action |-> a, KObj |-> k, Env |-> EnvPairs(f)] :
        a \in {ADD, UNBIND}, k \in {<<>>, <<47, 112>>}, f \in TestEnvs}

\* ---------------------------------------------------------------- round trip
\* e.Bytes(): the map is ranged over in any order
BytesCall ==
    /\ pstage = "event"
    /\ \E ord \in RangeOrders(inEv.Env) : inRaw' = Bytes(inEv, ord)
    /\ pstage' = "encoded"
    /\ UNCHANGED <<ConfigVars, PeekVars, MonitorVars, ReadVars, arrived, sock,
                   inEv, inEv2, inOff, res, eqr>>

\* ParseUEvent(raw)
ParseCall ==
    /\ pstage = "encoded"
    /\ res' = ParseUEvent(inRaw, littleEndian)
    /\ pstage' = "parsed"
    /\ UNCHANGED <<ConfigVars, PeekVars, MonitorVars, ReadVars, arrived, sock,
                   inEv, inEv2, inOff, inRaw, eqr>>

\* e.Equal(*parsed) on the event the parser returned
EqualParsed ==
    /\ pstage = "parsed"
    /\ res.some
    /\ inEv2' = res.ev
    /\ eqr' = Equal(inEv, res.ev)
    /\ pstage' = "compared"
    /\ UNCHANGED <<ConfigVars, PeekVars, MonitorVars, ReadVars, arrived, sock,
                   inEv, inOff, inRaw, res>>

\* A caller that encodes an event, parses the bytes and compares.
InitRoundTrip ==
    /\ littleEndian \in BOOLEAN
    /\ limit = 0
    /\ matcher = "nil"
    /\ queueCap = 0
    /\ errsCap = 0
    /\ cpc = "afterReturn"
    /\ InitState
    /\ pstage = "event"
    /\ inEv \in TestEvents
    /\ inEv2 = <<>>
    /\ inOff = -1
    /\ inRaw = <<>>
    /\ res = <<>>
    /\ eqr = <<>>

NextRoundTrip ==
    \/ BytesCall
    \/ ParseCall
    \/ EqualParsed

SpecRoundTrip == InitRoundTrip /\ [][NextRoundTrip]_vars

\* C11: for every event with a valid action and no NUL, '@' or '=' in its
\* path, keys and values, and for every order of the pairs in Bytes(),
\* ParseUEvent succeeds on the bytes and Equal finds the parsed event equal.
C11_RoundTrip ==
    /\ pstage \in {"parsed", "compared"} => (res.kind = "ok" /\ res.err = "nil")
    /\ pstage = "compared" => (eqr.ok /\ eqr.reason = "nil")

\* an event of three pairs, one with an empty key and one with an empty
\* value, encoded in an order other than that of the keys, has come back
C11_Witness ==
    /\ pstage = "compared"
    /\ Cardinality(inEv.Env) = 3
    /\ <<<<>>, <<118>>>> \in inEv.Env
    /\ <<<<75>>, <<>>>> \in inEv.Env
    /\ Slice(inRaw, Len(inEv.Action) + Len(inEv.KObj) + 2,
             Len(inEv.Action) + Len(inEv.KObj) + 3) = <<EQ>>
    /\ inEv.KObj = <<>>
    /\ eqr.ok

\* ---------------------------------------------------------------- buffers of the callers
\* "add@p\0K\0": a field without '='
DgBadEnv == ADD \o <<AT, 112, NUL, 75, NUL>>

\* "add@p\0K=v\0"
DgEnv == ADD \o <<AT, 112, NUL, 75, EQ, 118, NUL>>

\* a kernel message of 47 bytes: "add@" and a path of 40 bytes, "\0K=\0"
DgLong == ADD \o <<AT>> \o [i \in 1..UdevHeaderLen |-> 112] \o <<NUL, 75, EQ, NUL>>

NativeBuffers == Datagrams \cup {<<>>, DgBadEnv, DgEnv, DgLong}

\* "libudev\0" and a prefix that differs from it in one byte
TestPrefixes == {LibudevPrefix, <<108, 105, 98, 117, 100, 101, 120, 0>>}

\* 0xfeedcafe in network byte order, the same in the opposite order, and
\* two values that differ from it in the first and in the last byte
TestMagics == {libudevMagic, <<254, 202, 237, 254>>, <<255, 237, 202, 254>>,
               <<254, 237, 202, 255>>}

\* "ACTION=add\0", "ACTION=Change\0DEVPATH=/p\0", "ACTION=bogus\0", "K\0",
\* "K" and no payload
TestPayloads ==
    {KeyACTION \o <<EQ>> \o ADD \o <<NUL>>,
     KeyACTION \o <<EQ, 67, 104, 97, 110, 103, 101, NUL>> \o KeyDEVPATH \o <<EQ, 47, 112, NUL>>,
     KeyACTION \o <<EQ, 98, 111, 103, 117, 115, NUL>>,
     <<75, NUL>>,
     <<75>>,
     <<>>}

\* offsets written in the header of a message of len bytes: inside the
\* header, at the payload, around the length, and values that fill the
\* second, third and fourth byte of the field
TestOffsets(len) ==
    {0, 20, UdevHeaderLen, len - 1, len, len + 1, 256, 65536 + UdevHeaderLen,
     16777216 + UdevHeaderLen, UdevHeaderLen * 16777216}

\* the four bytes of the uint32 off as the platform stores them
EncodeNative(off, le) ==
    LET b == <<off \div 16777216, (off \div 65536) % 256, (off \div 256) % 256, off % 256>>
    IN IF le THEN <<b[4], b[3], b[2], b[1]>> ELSE b

\* a message with the header of udev: prefix, magic, header size, offset of
\* the payload, the other fields of the header up to byte 40, the payload
UdevMessage(prefix, magic, offbytes, payload) ==
    prefix \o magic \o <<0, 0, 0, 0>> \o offbytes \o [i \in 1..20 |-> 0] \o payload

\* ---------------------------------------------------------------- parser alone
\* A caller that hands one buffer to ParseUEvent, on either kind of platform.
InitParse ==
    /\ littleEndian \in BOOLEAN
    /\ limit = 0
    /\ matcher = "nil"
    /\ queueCap = 0
    /\ errsCap = 0
    /\ cpc = "afterReturn"
    /\ InitState
    /\ pstage = "encoded"
    /\ inEv = <<>>
    /\ inEv2 = <<>>
    /\ res = <<>>
    /\ eqr = <<>>
    /\ \/ /\ inRaw \in NativeBuffers
          /\ inOff = -1
       \/ \E prefix \in TestPrefixes, magic \in TestMagics, payload \in TestPayloads :
             \E off \in TestOffsets(UdevHeaderLen + Len(payload)) :
                /\ inOff = off
                /\ inRaw = UdevMessage(prefix, magic, EncodeNative(off, littleEndian), payload)

NextParse == ParseCall

SpecParse == InitParse /\ [][NextParse]_vars

\* the buffer is longer than 40 bytes and begins with "libudev" and a NUL
LongWithPrefix ==
    /\ Len(inRaw) > 40
    /\ SubSeq(inRaw, 1, 8) = <<108, 105, 98, 117, 100, 101, 118, 0>>

\* bytes [8:12] of the buffer are fe ed ca fe
MagicMatches == SubSeq(inRaw, 9, 12) = <<254, 237, 202, 254>>

\* C12: a buffer longer than 40 bytes that begins with "libudev\0" is given to
\* the enriched-format parser (the result is that parser's: an event whose
\* action is the lower-cased ACTION variable, or one of its errors and no
\* event); every other buffer is parsed as native format: the result is never
\* an error about the magic, the offset or the enriched payload, and an event
\* returned has the action and path of the header "action@path\0" the buffer
\* begins with.
C12_FormatDispatch ==
    pstage = "parsed" =>
       IF LongWithPrefix
       THEN /\ res = parseUdevEvent(inRaw, littleEndian)
            /\ res.kind \in {"ok", "err"}
            /\ res.kind = "err" =>
                  /\ ~res.some
                  /\ res.err \in {"magic number mismatch", "invalid data offset",
                                  "invalid env data", "unknow kobject action"}
            /\ res.kind = "ok" =>
                  \E p \in res.ev.Env : p[1] = KeyACTION /\ ToLower(p[2]) = res.ev.Action
       ELSE /\ res.err \notin {"magic number mismatch", "invalid data offset",
                               "invalid env data"}
            /\ res.kind = "ok" =>
                  LET h == res.ev.Action \o <<AT>> \o res.ev.KObj \o <<NUL>>
                  IN SubSeq(inRaw, 1, Len(h)) = h

\* a buffer of 41 bytes with the prefix went to the enriched parser, which
\* rejected its payload
C12_Witness ==
    /\ pstage = "parsed"
    /\ Len(inRaw) = 41
    /\ LongWithPrefix
    /\ MagicMatches
    /\ res.err = "invalid env data"

\* C13: an enriched-format buffer whose bytes [8:12] are not fe ed ca fe
\* fails with the magic-mismatch error and no event, whatever its offset
\* field and payload.
C13_MagicMismatch ==
    (pstage = "parsed" /\ LongWithPrefix /\ ~MagicMatches) =>
       res = [kind |-> "err", some |-> FALSE, ev |-> "nil", err |-> "magic number mismatch"]

\* the magic in the opposite byte order, over a valid offset and a payload
\* that would parse, has been rejected
C13_Witness ==
    /\ pstage = "parsed"
    /\ Len(inRaw) = 51
    /\ LongWithPrefix
    /\ SubSeq(inRaw, 9, 12) = <<254, 202, 237, 254>>
    /\ inOff = 40
    /\ SubSeq(inRaw, 41, 51) = <<65, 67, 84, 73, 79, 78, 61, 97, 100, 100, 0>>
    /\ res.err = "magic number mismatch"

\* C14: for an enriched-format buffer with the right magic, an offset field
\* (platform byte order) at or beyond the length of the buffer gives the
\* invalid-offset error and no event; a smaller offset gives the result of
\* parsing exactly the bytes from the offset to the end.
C14_PayloadOffset ==
    (pstage = "parsed" /\ LongWithPrefix /\ MagicMatches) =>
       IF inOff >= Len(inRaw)
       THEN res = [kind |-> "err", some |-> FALSE, ev |-> "nil", err |-> "invalid data offset"]
       ELSE res = UdevPayload(SubSeq(inRaw, inOff + 1, Len(inRaw)))

\* on a big-endian platform an offset equal to the length has been rejected
C14_Witness ==
    /\ pstage = "parsed"
    /\ ~littleEndian
    /\ LongWithPrefix
    /\ MagicMatches
    /\ inOff = Len(inRaw)
    /\ res.err = "invalid data offset"

\* C16: on native-format input ParseUEvent returns an event or an error,
\* never both, and never panics on a slice out of range.
C16_NativeParserTotal ==
    (pstage = "parsed" /\ ~LongWithPrefix) =>
       /\ res.kind # "panic"
       /\ res.some <=> res.err = "nil"

\* ---------------------------------------------------------------- Equal alone
\* e.Equal(e2)
EqualCall ==
    /\ pstage = "pair"
    /\ eqr' = Equal(inEv, inEv2)
    /\ pstage' = "compared"
    /\ UNCHANGED <<ConfigVars, PeekVars, MonitorVars, ReadVars, arrived, sock,
                   inEv, inEv2, inOff, inRaw, res>>

\* A caller that compares two events.
InitEqual ==
    /\ littleEndian = TRUE
    /\ limit = 0
    /\ matcher = "nil"
    /\ queueCap = 0
    /\ errsCap = 0
    /\ cpc = "afterReturn"
    /\ InitState
    /\ pstage = "pair"
    /\ inEv \in TestEvents
    /\ inEv2 \in TestEvents
    /\ inOff = -1
    /\ inRaw = <<>>
    /\ res = <<>>
    /\ eqr = <<>>

NextEqual == EqualCall

SpecEqual == InitEqual /\ [][NextEqual]_vars

\* C15: Equal returns true exactly when the actions are equal, the paths are
\* equal and the two environments are the same map; its reason is non-nil
\* exactly when it returns false; the boolean is the same with the two
\* events exchanged.
C15_EqualIsEquality ==
    pstage = "compared" =>
       /\ eqr.ok <=> /\ inEv.Action = inEv2.Action
                     /\ inEv.KObj = inEv2.KObj
                     /\ inEv.Env = inEv2.Env
       /\ eqr.reason # "nil" <=> ~eqr.ok
       /\ eqr.ok = Equal(inEv2, inEv).ok

\* two events that differ only in that the second has one pair more have
\* been found different
C15_Witness ==
    /\ pstage = "compared"
    /\ inEv.Action = inEv2.Action
    /\ inEv.KObj = inEv2.KObj
    /\ inEv.Env # inEv2.Env
    /\ inEv.Env \subseteq inEv2.Env
    /\ inEv.Env # {}
    /\ ~eqr.ok
    /\ eqr.reason = "Wrong length of env"

\* ---------------------------------------------------------------- msgPeek, one Recvfrom at a time
\* buf := make([]byte, os.Getpagesize())
PeekStart ==
    /\ pkpc = "idle"
    /\ pkcap' = PageSize
    /\ pkn' = 0
    /\ pkpc' = "recv"
    /\ UNCHANGED <<ConfigVars, ParserVars, MonitorVars, ReadVars, arrived, sock>>

\* one round of the loop: Recvfrom with MSG_PEEK (it blocks while the queue
\* is empty), then return the error, leave the loop or take a larger buffer
PeekRound ==
    /\ pkpc = "recv"
    /\ \/ \* Recvfrom fails: return n, &buf, err
          /\ pkpc' = "failed"
          /\ UNCHANGED <<pkcap, pkn>>
       \/ /\ sock # <<>>
          /\ pkn' = Recvfrom(Head(sock), pkcap)
          /\ IF pkn' < pkcap
             THEN /\ pkpc' = "returned"
                  /\ UNCHANGED pkcap
             ELSE /\ pkcap' = Grow(pkcap)
                  /\ pkpc' = "recv"
    /\ UNCHANGED <<ConfigVars, ParserVars, MonitorVars, ReadVars, arrived, sock>>

\* the caller reads the datagram into the buffer msgPeek returned
PeekRead ==
    /\ pkpc = "returned"
    /\ LET r == msgRead([i \in 1..pkcap |-> 0], sock)
       IN /\ sock' = r.sock
          /\ msgs' = Append(msgs, r.buf)
    /\ pkpc' = "idle"
    /\ UNCHANGED <<ConfigVars, ParserVars, MonitorVars, arrived, rpc, rbuf, pkcap, pkn>>

NextPeek ==
    \/ KernelSendBlob
    \/ PeekStart
    \/ PeekRound
    \/ PeekRead

SpecPeek == InitRead /\ [][NextPeek]_vars

\* C17 as it is stated: each growth of the buffer doubles its capacity (one
\* page, two pages, four pages).
C17_GrowthDoubles ==
    [][(pkpc = "recv" /\ pkcap' # pkcap) => pkcap' = 2 * pkcap]_vars

\* C17, amended: msgPeek starts with a buffer of one page; it takes a larger
\* buffer only when a peek returned as many bytes as the buffer holds, and
\* the larger buffer has one page more (one page, two pages, three pages);
\* it returns as soon as a peek returns fewer bytes than the buffer holds,
\* with the length of the head datagram and the result of msgPeek; the
\* buffer never exceeds the datagram by more than a page, so the loop ends.
C17_GrowthByOnePage ==
    /\ [](pkpc = "recv" /\ sock # <<>> => pkcap <= Len(Head(sock)) + PageSize)
    /\ [](pkpc = "returned" =>
            /\ pkn = Len(Head(sock))
            /\ pkn < pkcap
            /\ pkcap = Len(msgPeek(sock).buf)
            /\ pkn = msgPeek(sock).n)
    /\ [][/\ (pkpc = "idle" /\ pkpc' = "recv") => pkcap' = PageSize
          /\ (pkpc # "idle" /\ pkcap' # pkcap) =>
                /\ pkpc = "recv"
                /\ pkpc' = "recv"
                /\ pkn' = pkcap
                /\ pkcap' = pkcap + PageSize
          /\ (pkpc = "recv" /\ pkpc' = "returned") => (pkn' < pkcap /\ pkcap' = pkcap)
          /\ (pkpc = "recv" /\ pkpc' = "recv" /\ arrived' = arrived) =>
                (pkn' >= pkcap /\ pkcap' # pkcap)]_vars

\* msgPeek has returned a buffer of three pages after growing it twice
C17_Witness ==
    /\ pkpc = "returned"
    /\ pkcap = 3 * PageSize
    /\ pkn >= 2 * PageSize

\* ---------------------------------------------------------------- cancellation
\* the number of datagrams read so far that met the fate f
HandledAs(f) == Len(SelectSeq(handled, LAMBDA h : h = f))

\* C18: when the worker has stopped on the cancellation signal, nothing is
\* left in its hands: every datagram it read was delivered on queue, dropped
\* by the matcher or reported on errs, the socket queue holds exactly the
\* datagrams that arrived after the ones read, and a buffer that was peeked
\* and not read is the head of the socket queue.
C18_CancelLosesNothing ==
    wpc = "cancelled" =>
       /\ pending = <<>>
       /\ Len(handled) = nread
       /\ \A i \in 1..nread : handled[i] \in {"accepted", "dropped", "error"}
       /\ \A i \in 1..nread : handled[i] = "accepted" <=>
                                 \E j \in 1..Len(delivered) : delivered[j].idx = i
       /\ HandledAs("accepted") = Len(delivered)
       /\ HandledAs("error") = Len(ParseErrors(emitted))
       /\ sock = SubSeq(arrived, nread + 1, Len(arrived))
       /\ bufToRead # <<>> =>
             /\ sock # <<>>
             /\ npeek = nread + 1
             /\ \E cap \in 1..(Len(Head(sock)) + PageSize) :
                   Head(bufToRead) = Padded(Head(sock), cap)
       /\ bufToRead = <<>> => npeek = nread

\* the worker was cancelled after one datagram was delivered and one
\* reported, with a third datagram peeked and still in the socket
C18_Witness ==
    /\ wpc = "cancelled"
    /\ bufToRead # <<>>
    /\ Len(delivered) = 1
    /\ HandledAs("error") = 1
    /\ nread = 2
    /\ Len(sock) = 1

\* ---------------------------------------------------------------- backpressure
\* the part of C20 that does not depend on the caller's queue: bufToRead
\* holds at most one buffer, the worker's send into it finds it empty, and a
\* peek is followed by at most one read before the next peek
HandOffBounded ==
    /\ Len(bufToRead) <= 1
    /\ wpc = "peek" => bufToRead = <<>>
    /\ nread <= npeek
    /\ npeek <= nread + 1
    /\ bufToRead # <<>> => npeek = nread + 1

\* C20 as it is stated: the hand-off is bounded and, whenever the worker is
\* probing or holds a probed buffer to read, every event it accepted has been
\* received by the consumer.
C20_NoProbeBeforeReceive ==
    /\ HandOffBounded
    /\ (wpc = "peek" \/ bufToRead # <<>>) => received = Events(delivered)

\* C20, amended: the hand-off is bounded; the worker never probes nor holds a
\* probed buffer while an accepted event waits to be sent; the events sent
\* and not yet received are those in the caller's queue, at most its
\* capacity; with an unbuffered queue, as in main.go, every event sent has
\* been received, so the worker does not probe the next datagram before the
\* consumer received the previous event.
C20_Backpressure ==
    /\ HandOffBounded
    /\ (wpc = "peek" \/ bufToRead # <<>>) => pending = <<>>
    /\ Len(pending) <= 1
    /\ Len(queueBuf) <= queueCap
    /\ Events(delivered) = received \o queueBuf
    /\ queueCap = 0 => received = Events(delivered)

\* with an unbuffered queue the worker waits to send the first event, the
\* consumer not receiving, while two more datagrams wait in the socket
C20_Witness ==
    /\ queueCap = 0
    /\ wpc = "sendEvent"
    /\ cpc # "running"
    /\ nread = 1
    /\ npeek = 1
    /\ Len(sock) = 2
    /\ received = <<>>

\* ---------------------------------------------------------------- shutdown
\* the signal has been raised: a value waits in quit, or quit is closed
SignalRaised == quitLen > 0 \/ quitClosed

\* the worker goroutine is in its loop
WorkerRunning ==
    wpc \in {"select", "peek", "sendEvent", "sendReadErr", "sendParseErr", "sendPeekErr"}

\* The kernel queues datagrams, and one more for a worker that is blocked in
\* msgPeek on an empty socket after the signal was raised: the socket
\* produces the traffic the worker needs to come back to its select.
KernelSendLive ==
    /\ Alive
    /\ \/ Len(arrived) < MaxLiveDatagrams
       \/ /\ Len(arrived) = MaxLiveDatagrams
          /\ SignalRaised
          /\ wpc = "peek"
          /\ sock = <<>>
    /\ \E d \in Datagrams :
          /\ arrived' = Append(arrived, d)
          /\ sock' = Append(sock, d)
    /\ UNCHANGED <<ConfigVars, ParserVars, PeekVars, MonitorVars, ReadVars>>

\* Monitor without a match limit, with a matcher that compiles or none, the
\* consumer started after Monitor returned as in main.go.
InitLive ==
    /\ littleEndian = TRUE
    /\ limit = 0
    /\ matcher \in {"nil", "addOnly"}
    /\ queueCap \in ChanCaps
    /\ errsCap = queueCap
    /\ cpc = "afterReturn"
    /\ InitState
    /\ NoParserCall

NextLive ==
    \/ KernelSendLive
    \/ MonitorStart
    \/ WorkerSelectQuit
    \/ WorkerSelectBuf
    \/ WorkerSendEvent
    \/ WorkerSendErr
    \/ WorkerSelectDefault
    \/ WorkerPeek
    \/ ConsumerStart
    \/ ConsumerRecvQueue
    \/ ConsumerRecvErrs
    \/ CancelSend
    \/ CancelClose

\* The goroutines of the worker and of the consumer are scheduled as long as
\* they can take a step; a system call is not bound to fail, so that of the
\* steps of msgPeek only its return with a datagram is owed; the caller is
\* not bound to raise the signal.
FairLive ==
    /\ WF_vars(KernelSendLive)
    /\ WF_vars(WorkerSelectQuit)
    /\ WF_vars(WorkerSelectBuf)
    /\ WF_vars(WorkerSendEvent)
    /\ WF_vars(WorkerSendErr)
    /\ WF_vars(WorkerSelectDefault)
    /\ WF_vars(WorkerPeek /\ npeek' # npeek)
    /\ WF_vars(ConsumerStart)
    /\ WF_vars(ConsumerRecvQueue)
    /\ WF_vars(ConsumerRecvErrs)

SpecLive == InitLive /\ [][NextLive]_vars /\ FairLive

\* after the signal the worker has no datagram left to take: it has stopped,
\* or it is past its probe with nothing handed over
Spent == WorkerDone \/ (SignalRaised /\ WorkerRunning /\ wpc # "peek" /\ bufToRead = <<>>)

\* C19: once the signal is raised with the worker in its loop, the consumer
\* receiving and the socket producing a datagram for a worker blocked in its
\* probe, the worker leaves its loop (or the process has died of a panic);
\* and after the signal it reads at most one datagram: a read made with the
\* signal raised leaves it with no datagram to take, and from then on it
\* neither probes nor reads.
C19_CooperativeShutdown ==
    /\ (SignalRaised /\ WorkerRunning /\ Alive) ~> (WorkerDone \/ ~Alive)
    /\ [][/\ (SignalRaised /\ nread' # nread) => Spent'
          /\ Spent => (Spent' /\ nread' = nread /\ npeek' = npeek)]_vars

\* the worker stopped on the closed quit after it read the datagram that
\* arrived while it was blocked in its probe with the signal raised
C19_Witness ==
    /\ wpc = "cancelled"
    /\ quitClosed
    /\ Len(arrived) = MaxLiveDatagrams + 1
    /\ nread = Len(arrived)
====
